---- MODULE Spec2Model ----
(***************************************************************************)
(* memoizy (src/mod.ts): a memoized function over a pluggable cache, with  *)
(* optional expiration (maxAge), an acceptance predicate (valueAccept),    *)
(* a cache whose has() may be asynchronous, and delete / clear.            *)
(*                                                                         *)
(* The event loop is modelled as interleaved steps: a memoized call (or    *)
(* the first half of one, when has() is asynchronous), the continuation of *)
(* an asynchronous has(), the settling of a promise the wrapped function   *)
(* returned, the deferred acceptance-and-store reaction on such a promise, *)
(* a setTimeout callback, and the passing of time.                         *)
(***************************************************************************)
EXTENDS Naturals, Sequences, FiniteSets, Bags, TLC

VARIABLES
  opt,       \* the options memoizy was built with (fixed after construction)
  cache,     \* the cache: key -> [value, exp], exp the extra arguments of set
  promises,  \* promise id -> [state, v], the promises the wrapped function returned
             \* that something still refers to
  stores,    \* bag of pending acceptance reactions [key, pid]
  checks,    \* bag of memoized calls waiting for an asynchronous has(): [args, exists]
  timers,    \* bag of pending setTimeout callbacks [key, delay], delay the time left
  last,      \* the most recent operation on the memoized function, as its caller saw it
  unhandled, \* a promise has rejected with no reaction attached (unhandledrejection)
  fp         \* the curried adapter: the partial applications and the memoized
             \* functions made through it, each with the cache it obtained

vars == <<opt, cache, promises, stores, checks, timers, last, unhandled, fp>>

----------------------------------------------------------------------------
(* Bounds of the model *)

MaxPromises == 2   \* promises of the wrapped function still referenced at one time
MaxPending == 2    \* calls waiting on an asynchronous has() at one time
MaxTimers == 2     \* setTimeout callbacks outstanding at one time
MaxTicks == 3      \* the time since the last operation is counted up to MaxTicks steps
MaxMade == 2       \* memoized functions made through the curried adapter

(* Program values *)

Infinity == 1000000       \* stands for the number Infinity (the default maxAge)
ExampleMaxAge == 100      \* a finite positive maxAge, in milliseconds
TickStep == ExampleMaxAge \div 2

----------------------------------------------------------------------------
(* Values: what the wrapped function, the cache and the memoized function  *)
(* hand around.  One record shape, so that any two values compare.         *)

Imm(s) == [t |-> "imm", v |-> s, id |-> 0]
Undefined == [t |-> "undefined", v |-> "", id |-> 0]
PromiseOf(p) == [t |-> "promise", v |-> "", id |-> p]
Thenable == [t |-> "thenable", v |-> "", id |-> 0]
Thrown(e) == [t |-> "throw", v |-> e, id |-> 0]

ImmVals == {"true", "false"}
Errors == {"err"}
ClearError == "This cache doesn't support clear"

isPromise(value) == value.t \in {"promise", "thenable"}

(* Arguments: tuples of JavaScript values, written as tokens:              *)
(* n1 is the number 1, s1 the string "1"; any other token stands for a     *)
(* value JSON.stringify writes as null (NaN, undefined, null).             *)
ArgTuples == {<<>>, <<"n1">>}

(* JSON.stringify of one array element *)
JSONElement(x) ==
  CASE x = "n1" -> "1"
    [] x = "s1" -> "\"1\""
    [] OTHER -> "null"

RECURSIVE JSONJoin(_)
JSONJoin(args) ==
  IF Len(args) = 0 THEN ""
  ELSE IF Len(args) = 1 THEN JSONElement(args[1])
  ELSE JSONElement(args[1]) \o "," \o JSONJoin(Tail(args))

JSONstringify(args) == "[" \o JSONJoin(args) \o "]"

(* defaultCacheKeyBuilder without the test of args.length *)
defaultCacheKeyBuilderNoSentinel(args) == JSONstringify(args)

defaultCacheKeyBuilder(args) ==
  IF Len(args) = 0 THEN "__0aritykey__" ELSE JSONstringify(args)

cacheKey(args) == defaultCacheKeyBuilder(args)

----------------------------------------------------------------------------
(* Options *)

ValueAccepts == {"null", "notErr", "isTrue", "always", "rethrows"}
MaxAges == {0, ExampleMaxAge, Infinity}

AllOptions ==
  [valueAccept : ValueAccepts,
   maxAge : MaxAges,
   cacheHandlesExpiration : BOOLEAN,
   asyncHas : BOOLEAN,
   hasClear : BOOLEAN]

(* The options a run starts from: the default ones, every way of setting   *)
(* how entries expire, and each other option changed alone.                *)
DefaultOptions ==
  [valueAccept |-> "null", maxAge |-> Infinity, cacheHandlesExpiration |-> FALSE,
   asyncHas |-> FALSE, hasClear |-> TRUE]
Options ==
  {o \in AllOptions :
     \/ /\ o.valueAccept = "null" /\ ~o.asyncHas /\ o.hasClear
     \/ /\ o.maxAge = Infinity /\ ~o.cacheHandlesExpiration
        /\ \/ ~o.asyncHas /\ o.hasClear
           \/ o.valueAccept = "null" /\ ~o.asyncHas
           \/ o.valueAccept = "null" /\ o.hasClear}

hasExpireDate == opt.maxAge > 0 /\ opt.maxAge < Infinity

(* valueAccept(err, res) for the predicates of the README:                 *)
(* (err) => !err, (err, value) => value === true, and () => true; and for  *)
(* a predicate that fails, (err) => { if (err) throw err; return true }.   *)
valueAccept(err, res) ==
  CASE opt.valueAccept = "notErr" -> err = "null"
    [] opt.valueAccept = "isTrue" -> res = Imm("true")
    [] OTHER -> TRUE
valueAcceptThrows(err, res) == opt.valueAccept = "rethrows" /\ err # "null"

----------------------------------------------------------------------------
(* The cache (a Map, or anything with has / get / set / delete [/ clear])  *)

CacheHas(c, key) == key \in DOMAIN c
CacheGet(c, key) == IF key \in DOMAIN c THEN c[key].value ELSE Undefined
CacheSet(c, key, value, exp) ==
  [k \in DOMAIN c \cup {key} |->
     IF k = key THEN [value |-> value, exp |-> exp] ELSE c[k]]
CacheDelete(c, key) == [k \in DOMAIN c \ {key} |-> c[k]]
EmptyCache == [k \in {} |-> Undefined]

----------------------------------------------------------------------------
(* set(key, value): the cache and the timers after it, from st = [cache, timers] *)

(* set with cache.set moved inside the if (hasExpireDate) block *)
setOnlyWhenExpiring(st, key, value) ==
  IF opt.cacheHandlesExpiration /\ hasExpireDate
  THEN [st EXCEPT !.cache = CacheSet(st.cache, key, value, <<opt.maxAge>>)]
  ELSE IF hasExpireDate
  THEN [st EXCEPT
          !.timers = st.timers (+) SetToBag({[key |-> key, delay |-> opt.maxAge]}),
          !.cache = CacheSet(st.cache, key, value, <<>>)]
  ELSE st

(* set without the setTimeout *)
setNoTimer(st, key, value) ==
  IF opt.cacheHandlesExpiration /\ hasExpireDate
  THEN [st EXCEPT !.cache = CacheSet(st.cache, key, value, <<opt.maxAge>>)]
  ELSE [st EXCEPT !.cache = CacheSet(st.cache, key, value, <<>>)]

(* set that hands maxAge to the cache whenever the cache handles           *)
(* expiration, without looking at hasExpireDate                            *)
setAlwaysMaxAge(st, key, value) ==
  IF opt.cacheHandlesExpiration
  THEN [st EXCEPT !.cache = CacheSet(st.cache, key, value, <<opt.maxAge>>)]
  ELSE [st EXCEPT
          !.timers = IF hasExpireDate
                     THEN st.timers (+) SetToBag({[key |-> key, delay |-> opt.maxAge]})
                     ELSE st.timers,
          !.cache = CacheSet(st.cache, key, value, <<>>)]

(* set that keeps one timeout per key: clearTimeout of the pending one     *)
(* before the new setTimeout                                               *)
setReplacesTimer(st, key, value) ==
  IF opt.cacheHandlesExpiration /\ hasExpireDate
  THEN [st EXCEPT !.cache = CacheSet(st.cache, key, value, <<opt.maxAge>>)]
  ELSE [st EXCEPT
          !.timers = IF hasExpireDate
                     THEN [t \in {u \in BagToSet(st.timers) : u.key # key} |-> st.timers[t]]
                            (+) SetToBag({[key |-> key, delay |-> opt.maxAge]})
                     ELSE st.timers,
          !.cache = CacheSet(st.cache, key, value, <<>>)]

set(st, key, value) ==
  IF opt.cacheHandlesExpiration /\ hasExpireDate
  THEN [st EXCEPT !.cache = CacheSet(st.cache, key, value, <<opt.maxAge>>)]
  ELSE [st EXCEPT
          !.timers = IF hasExpireDate
                     THEN st.timers (+) SetToBag({[key |-> key, delay |-> opt.maxAge]})
                     ELSE st.timers,
          !.cache = CacheSet(st.cache, key, value, <<>>)]

(* What one invocation of the wrapped function may produce: an immediate   *)
(* value, a synchronous throw, or a new pending promise.                   *)
Born == {p \in DOMAIN promises : promises[p].state # "unborn"}
Unborn == DOMAIN promises \ Born
FnOutcomes ==
  {Imm(s) : s \in ImmVals} \cup {Thrown(e) : e \in Errors}
    \cup (IF Unborn # {}
          THEN {PromiseOf(CHOOSE p \in Unborn : \A q \in Unborn : p <= q)}
          ELSE {})

(* A promise that neither the cache, nor a pending reaction, nor the       *)
(* caller of the last operation refers to can no longer be observed: it is *)
(* collected, and its id is free again.                                    *)
Referenced(c, s, e) ==
  {c[k].value.id : k \in DOMAIN c} \cup {t.pid : t \in BagToSet(s)}
    \cup {e.ret.id, e.produced.id}
Collect(ps, c, s, e) ==
  [p \in DOMAIN ps |->
     IF p \in Referenced(c, s, e) THEN ps[p] ELSE [state |-> "unborn", v |-> ""]]

(* The state onExistenceChecked starts from, and that state once the       *)
(* wrapped function has produced out.                                      *)
Before(out) ==
  [cache |-> cache, timers |-> timers, stores |-> stores,
   promises |-> promises, ret |-> out, invoked |-> TRUE]
Produced(out) ==
  IF out.t = "promise"
  THEN [Before(out) EXCEPT !.promises[out.id] = [state |-> "pending", v |-> ""]]
  ELSE Before(out)
Deferred(st, key, out) ==
  [st EXCEPT !.stores = st.stores (+) SetToBag({[key |-> key, pid |-> out.id]})]

(* onExistenceChecked that stores a promise only once it has resolved,     *)
(* whether or not valueAccept is set                                       *)
onExistenceCheckedAwaits(exists, key, out) ==
  IF exists
  THEN [Before(out) EXCEPT !.ret = CacheGet(cache, key), !.invoked = FALSE]
  ELSE IF out.t = "throw" THEN Before(out)
  ELSE IF isPromise(out) THEN Produced(out)
  ELSE IF opt.valueAccept = "null" THEN set(Produced(out), key, out)
  ELSE IF valueAccept("null", out) THEN set(Produced(out), key, out)
  ELSE Produced(out)

(* onExistenceChecked with the call of fn wrapped in a try / catch that    *)
(* stores and returns undefined when fn throws                             *)
onExistenceCheckedCatches(exists, key, out) ==
  IF exists
  THEN [Before(out) EXCEPT !.ret = CacheGet(cache, key), !.invoked = FALSE]
  ELSE IF out.t = "throw"
    THEN [set(Before(out), key, Undefined) EXCEPT !.ret = Undefined]
  ELSE IF opt.valueAccept = "null" THEN set(Produced(out), key, out)
  ELSE IF isPromise(out) THEN Deferred(Produced(out), key, out)
  ELSE IF valueAccept("null", out) THEN set(Produced(out), key, out)
  ELSE Produced(out)

(* onExistenceChecked(exists, key, args) when the wrapped function, if it  *)
(* is invoked, produces out.  The result: the state after, what is         *)
(* returned, and whether the wrapped function was invoked.                 *)
(* onExistenceChecked that, with valueAccept, stores the pending promise   *)
(* at once and leaves only the decision to the reaction                    *)
onExistenceCheckedStoresPending(exists, key, out) ==
  IF exists
  THEN [Before(out) EXCEPT !.ret = CacheGet(cache, key), !.invoked = FALSE]
  ELSE IF out.t = "throw" THEN Before(out)
  ELSE IF opt.valueAccept = "null" THEN set(Produced(out), key, out)
  ELSE IF isPromise(out) THEN Deferred(set(Produced(out), key, out), key, out)
  ELSE IF valueAccept("null", out) THEN set(Produced(out), key, out)
  ELSE Produced(out)

onExistenceChecked(exists, key, out) ==
  IF exists
  THEN [Before(out) EXCEPT !.ret = CacheGet(cache, key), !.invoked = FALSE]
  ELSE IF out.t = "throw" THEN Before(out)
  ELSE IF opt.valueAccept = "null" THEN set(Produced(out), key, out)
  ELSE IF isPromise(out) THEN Deferred(Produced(out), key, out)
  ELSE IF valueAccept("null", out) THEN set(Produced(out), key, out)
  ELSE Produced(out)

(* The reaction without the .catch((err) => [err]) step: err is never set  *)
AcceptReactionNoCatch(st, key, p) ==
  LET res == IF p.state = "resolved" THEN Imm(p.v) ELSE Undefined
  IN IF valueAccept("null", res) THEN set(st, key, res) ELSE st

(* The deferred reaction on a promise the wrapped function returned:       *)
(* .then(res => [null, res]).catch(err => [err]).then(([err, res]) => ...) *)
(* Nothing reacts to the promise the last .then returns: when valueAccept  *)
(* throws, that promise rejects and the rejection is unhandled.            *)
AcceptReaction(st, key, p) ==
  LET err == IF p.state = "rejected" THEN p.v ELSE "null"
      res == IF p.state = "resolved" THEN Imm(p.v) ELSE Undefined
  IN IF valueAcceptThrows(err, res) THEN [st EXCEPT !.unhandled = TRUE]
     ELSE IF valueAccept(err, res) THEN set(st, key, res) ELSE st

----------------------------------------------------------------------------
(* Initial state: memoizy(fn, opt) has returned; nothing is cached.        *)

(* memoizy(fn, opt), as a step on st = [bound, made, heap, live, by] (by:   *)
(* how the program obtained the function made last): the new               *)
(* memoized function closes over fn, the options and the cache that this   *)
(* call of cacheFactory() returned; the default factory () => new Map()    *)
(* returns a new empty map each time.                                      *)
memoizy(fn, o, st) ==
  [st EXCEPT !.made = Append(st.made, [fn |-> fn, opt |-> o, cache |-> Len(st.heap) + 1]),
             !.heap = Append(st.heap, EmptyCache)]

(* The function handed to curry, (options, fn) => memoizy(fn, options),    *)
(* has length 2.                                                           *)
FpArity == 2

(* curry that compares with > *)
curryStrict(args, st) ==
  IF Len(args) > FpArity
  THEN memoizy(args[2], args[1], st)
  ELSE [st EXCEPT !.bound = st.bound \cup {args}]

(* curry(fn, ...args) for that function: it is applied once enough         *)
(* arguments are there, otherwise curry.bind(null, fn, ...args) is         *)
(* returned, a function that holds the arguments given so far.             *)
curry(args, st) ==
  IF Len(args) >= FpArity
  THEN memoizy(args[2], args[1], st)
  ELSE [st EXCEPT !.bound = st.bound \cup {args}]

(* No use of the adapter: memoizy(fn, opt) was called directly. *)
NoFp == [bound |-> {}, made |-> <<>>, heap |-> <<>>, live |-> 0, by |-> "memoizy"]

(* What the caller of an operation can tell afterwards: the operation, its *)
(* arguments, what it returned (or threw), whether the wrapped function    *)
(* ran and what it produced; whether anything was in flight for the key    *)
(* when the operation started, and the time since.                         *)
Event(op, a, ret, invoked, produced, quiet) ==
  [op |-> op, args |-> a, ret |-> ret, invoked |-> invoked,
   produced |-> produced, quiet |-> quiet, age |-> 0]

NoOp == Event("none", <<>>, Undefined, FALSE, Undefined, TRUE)

(* Nothing deferred can still store under key: no acceptance reaction and  *)
(* no call waiting on has() for it.                                        *)
NoStorePending(key) ==
  /\ \A t \in BagToSet(stores) : t.key # key
  /\ \A t \in BagToSet(checks) : cacheKey(t.args) # key
NoTimerPending(key) == \A t \in BagToSet(timers) : t.key # key

Init ==
  /\ opt \in Options
  /\ cache = EmptyCache
  /\ promises = [p \in 1..MaxPromises |-> [state |-> "unborn", v |-> ""]]
  /\ stores = EmptyBag
  /\ checks = EmptyBag
  /\ timers = EmptyBag
  /\ last = NoOp
  /\ unhandled = FALSE
  /\ fp = NoFp

(* memoized that hands the promise of has() to onExistenceChecked as if it  *)
(* were the boolean: the promise is truthy, so every call reads the cache  *)
CallNotAwaiting(a) ==
  \E out \in FnOutcomes :
    LET r == onExistenceChecked(IF opt.asyncHas THEN TRUE
                                ELSE CacheHas(cache, cacheKey(a)), cacheKey(a), out)
    IN /\ BagCardinality(r.timers) <= MaxTimers
       /\ cache' = r.cache
       /\ timers' = r.timers
       /\ stores' = r.stores
       /\ last' = Event("call", a, r.ret, r.invoked,
                        IF r.invoked THEN out ELSE Undefined,
                        NoStorePending(cacheKey(a)) /\ NoTimerPending(cacheKey(a)))
       /\ promises' = Collect(r.promises, r.cache, r.stores, last')
       /\ UNCHANGED <<opt, fp, unhandled, checks>>

(* memoized(...args) *)
Call(a) ==
  LET key == cacheKey(a)
      existence == CacheHas(cache, key)
      quiet == NoStorePending(key) /\ NoTimerPending(key)
  IN IF opt.asyncHas
     THEN /\ BagCardinality(checks) < MaxPending
          /\ checks' = checks (+) SetToBag({[args |-> a, exists |-> existence]})
          /\ last' = Event("call", a, Thenable, FALSE, Undefined, quiet)
          /\ promises' = Collect(promises, cache, stores, last')
          /\ UNCHANGED <<opt, fp, unhandled, cache, stores, timers>>
     ELSE \E out \in FnOutcomes :
            LET r == onExistenceChecked(existence, key, out)
            IN /\ BagCardinality(r.timers) <= MaxTimers
               /\ cache' = r.cache
               /\ timers' = r.timers
               /\ stores' = r.stores
               /\ last' = Event("call", a, r.ret, r.invoked,
                                IF r.invoked THEN out ELSE Undefined, quiet)
               /\ promises' = Collect(r.promises, r.cache, r.stores, last')
               /\ UNCHANGED <<opt, fp, unhandled, checks>>

(* existence.then((exists) => onExistenceChecked(exists, key, args)) *)
ExistenceChecked(t) ==
  /\ BagIn(t, checks)
  /\ \E out \in FnOutcomes :
       LET r == onExistenceChecked(t.exists, cacheKey(t.args), out)
       IN /\ BagCardinality(r.timers) <= MaxTimers
          /\ cache' = r.cache
          /\ timers' = r.timers
          /\ stores' = r.stores
          /\ last' = Event("checked", t.args, r.ret, r.invoked,
                           IF r.invoked THEN out ELSE Undefined, FALSE)
          /\ promises' = Collect(r.promises, r.cache, r.stores, last')
  /\ checks' = checks (-) SetToBag({t})
  /\ UNCHANGED <<opt, fp, unhandled>>

(* A promise returned by the wrapped function resolves or rejects. *)
Settle(p) ==
  /\ promises[p].state = "pending"
  /\ \E s \in {[state |-> "resolved", v |-> x] : x \in ImmVals}
               \cup {[state |-> "rejected", v |-> e] : e \in Errors} :
       promises' = [promises EXCEPT ![p] = s]
  /\ UNCHANGED <<opt, fp, unhandled, cache, stores, checks, timers, last>>

(* The acceptance reaction of a settled promise runs. *)
StoreTask(t) ==
  /\ BagIn(t, stores)
  /\ promises[t.pid].state \in {"resolved", "rejected"}
  /\ LET r == AcceptReaction([cache |-> cache, timers |-> timers,
                              unhandled |-> unhandled], t.key, promises[t.pid])
     IN /\ BagCardinality(r.timers) <= MaxTimers
        /\ cache' = r.cache
        /\ timers' = r.timers
        /\ unhandled' = r.unhandled
  /\ stores' = stores (-) SetToBag({t})
  /\ promises' = Collect(promises, cache', stores', last)
  /\ UNCHANGED <<opt, fp, checks, last>>

(* memoized.delete that builds the key without the arguments *)
DeleteNoArgs(a) ==
  /\ cache' = CacheDelete(cache, cacheKey(<<>>))
  /\ last' = Event("delete", a,
                   Imm(IF CacheHas(cache, cacheKey(<<>>)) THEN "true" ELSE "false"),
                   FALSE, Undefined, NoStorePending(cacheKey(a)))
  /\ promises' = Collect(promises, cache', stores, last')
  /\ UNCHANGED <<opt, fp, unhandled, stores, checks, timers>>

(* memoized.delete(...args) *)
Delete(a) ==
  /\ cache' = CacheDelete(cache, cacheKey(a))
  /\ last' = Event("delete", a,
                   Imm(IF CacheHas(cache, cacheKey(a)) THEN "true" ELSE "false"),
                   FALSE, Undefined, NoStorePending(cacheKey(a)))
  /\ promises' = Collect(promises, cache', stores, last')
  /\ UNCHANGED <<opt, fp, unhandled, stores, checks, timers>>

(* memoized.clear with the test of cache.clear inverted *)
ClearInverted ==
  /\ IF ~opt.hasClear
     THEN /\ cache' = cache
          /\ last' = Event("clear", <<>>, Thrown("cache.clear is not a function"),
                           FALSE, Undefined, stores = EmptyBag /\ checks = EmptyBag)
     ELSE /\ cache' = cache
          /\ last' = Event("clear", <<>>, Thrown(ClearError), FALSE, Undefined,
                           stores = EmptyBag /\ checks = EmptyBag)
  /\ promises' = Collect(promises, cache', stores, last')
  /\ UNCHANGED <<opt, fp, unhandled, stores, checks, timers>>

(* memoized.clear that returns quietly when the cache has no clear *)
ClearSilent ==
  /\ cache' = IF opt.hasClear THEN EmptyCache ELSE cache
  /\ last' = Event("clear", <<>>, Undefined, FALSE, Undefined,
                   stores = EmptyBag /\ checks = EmptyBag)
  /\ promises' = Collect(promises, cache', stores, last')
  /\ UNCHANGED <<opt, fp, unhandled, stores, checks, timers>>

(* memoized.clear() *)
Clear ==
  /\ IF opt.hasClear
     THEN /\ cache' = EmptyCache
          /\ last' = Event("clear", <<>>, Undefined, FALSE, Undefined,
                           stores = EmptyBag /\ checks = EmptyBag)
     ELSE /\ cache' = cache
          /\ last' = Event("clear", <<>>, Thrown(ClearError), FALSE, Undefined,
                           stores = EmptyBag /\ checks = EmptyBag)
  /\ promises' = Collect(promises, cache', stores, last')
  /\ UNCHANGED <<opt, fp, unhandled, stores, checks, timers>>

(* setTimeout(() => { cache.delete(key) }, maxAge) comes due and runs. *)
TimerFire(t) ==
  /\ BagIn(t, timers)
  /\ t.delay <= 0
  /\ cache' = CacheDelete(cache, t.key)
  /\ timers' = timers (-) SetToBag({t})
  /\ promises' = Collect(promises, cache', stores, last)
  /\ UNCHANGED <<opt, fp, unhandled, stores, checks, last>>

(* Time passes by TickStep.  The event loop runs the callbacks that are    *)
(* due before anything later; the clock is read by setTimeout alone, so    *)
(* time is followed only where set() schedules timeouts.                   *)
Earlier(t) == [t EXCEPT !.delay = t.delay - TickStep]
Later(t) == [t EXCEPT !.delay = t.delay + TickStep]
Tick ==
  /\ hasExpireDate /\ ~opt.cacheHandlesExpiration
  /\ \A t \in BagToSet(timers) : t.delay > 0
  /\ timers' = [t \in {Earlier(u) : u \in BagToSet(timers)} |-> timers[Later(t)]]
  /\ last' = [last EXCEPT !.age = IF last.age < MaxTicks * TickStep
                                  THEN last.age + TickStep ELSE last.age]
  /\ UNCHANGED <<opt, fp, unhandled, cache, promises, stores, checks>>

(* An unhandled rejection ends the process (Deno reports it as an uncaught *)
(* error and exits): nothing runs after it.                                *)
Running == ~unhandled

Next ==
  \/ Running /\ \E a \in ArgTuples : Call(a)
  \/ Running /\ \E t \in BagToSet(checks) : ExistenceChecked(t)
  \/ Running /\ \E p \in DOMAIN promises : Settle(p)
  \/ Running /\ \E t \in BagToSet(stores) : StoreTask(t)
  \/ Running /\ \E a \in ArgTuples : Delete(a)
  \/ Running /\ Clear
  \/ Running /\ \E t \in BagToSet(timers) : TimerFire(t)
  \/ Running /\ Tick

Spec == Init /\ [][Next]_vars

----------------------------------------------------------------------------
(* The curried adapter, fp.ts *)

(* The arguments the adapter is used with: the options of the README's     *)
(* memoizeFor5Seconds (here with a cache that expires entries itself) or   *)
(* the default ones, and the functions double and triple, which take one   *)
(* argument.                                                               *)
FpOptions ==
  {DefaultOptions,
   [DefaultOptions EXCEPT !.maxAge = ExampleMaxAge, !.cacheHandlesExpiration = TRUE]}
FpFns == {"double", "triple"}
FpArgs == {<<o>> : o \in FpOptions} \cup {<<o, f>> : o \in FpOptions, f \in FpFns}
FpArgTuples == {a \in ArgTuples : Len(a) = 1}

(* fp(...args) = curried(...args), curried = curry(f) = curry.bind(null, f) *)
Fp(args) ==
  /\ Len(fp.made) < MaxMade
  /\ fp' = [curry(<<>> \o args, fp) EXCEPT !.by = IF Len(args) = 1 THEN fp.by ELSE "fp"]
  /\ UNCHANGED <<opt, cache, promises, stores, checks, timers, last, unhandled>>

(* A function that an earlier fp(options) returned is called with fn. *)
Partial(b, args) ==
  /\ b \in fp.bound
  /\ Len(fp.made) < MaxMade
  /\ fp' = [curry(b \o args, fp) EXCEPT !.by = "partial"]
  /\ UNCHANGED <<opt, cache, promises, stores, checks, timers, last, unhandled>>

(* The program turns to the memoized function made i-th: opt and cache are *)
(* from now on the ones that function closed over.  heap keeps what the    *)
(* caches of the other functions hold meanwhile.                           *)
Switch(i) ==
  /\ i \in 1..Len(fp.made)
  /\ i # fp.live
  /\ LET heap == IF fp.live = 0 THEN fp.heap
                 ELSE [fp.heap EXCEPT ![fp.made[fp.live].cache] = cache]
     IN /\ fp' = [fp EXCEPT !.heap = [heap EXCEPT ![fp.made[i].cache] = EmptyCache],
                            !.live = i]
        /\ cache' = heap[fp.made[i].cache]
  /\ opt' = fp.made[i].opt
  /\ last' = NoOp
  /\ UNCHANGED <<promises, stores, checks, timers, unhandled>>

(* The operations of the memoized function the program has turned to; the  *)
(* wrapped functions double and triple return a value immediately.         *)
FpCall(a) == fp.live > 0 /\ Call(a) /\ (last'.invoked => last'.ret = Imm("true"))
FpDelete(a) == fp.live > 0 /\ Delete(a)
FpClear == fp.live > 0 /\ Clear

InitFp ==
  /\ opt = DefaultOptions
  /\ cache = EmptyCache
  /\ promises = [p \in 1..MaxPromises |-> [state |-> "unborn", v |-> ""]]
  /\ stores = EmptyBag
  /\ checks = EmptyBag
  /\ timers = EmptyBag
  /\ last = NoOp
  /\ unhandled = FALSE
  /\ fp = NoFp

NextFp ==
  \/ \E args \in FpArgs : Fp(args)
  \/ \E b \in fp.bound : \E f \in FpFns : Partial(b, <<f>>)
  \/ \E i \in 1..MaxMade : Switch(i)
  \/ \E a \in FpArgTuples : FpCall(a)
  \/ \E a \in FpArgTuples : FpDelete(a)
  \/ FpClear

SpecFp == InitFp /\ [][NextFp]_vars

----------------------------------------------------------------------------
(* Properties *)

NoAccept == opt.valueAccept = "null"
TimedExpiry == hasExpireDate /\ ~opt.cacheHandlesExpiration
IsCallEvent(e) == e.op \in {"call", "checked"}
Returned(e) == IsCallEvent(e) /\ e.ret.t # "throw"
Settled(v) == v.t = "promise" /\ promises[v.id].state \in {"resolved", "rejected"}
Rejected(v) == v.t = "promise" /\ promises[v.id].state = "rejected"

(* In a step that is the call memoized(a): the call is a hit returning v / *)
(* the call is a miss.  When has() is asynchronous the call only learns    *)
(* whether the key exists; its continuation does the rest.                 *)
CallHits(a, v) ==
  IF opt.asyncHas
  THEN CopiesIn([args |-> a, exists |-> TRUE], checks')
         = CopiesIn([args |-> a, exists |-> TRUE], checks) + 1
  ELSE ~last'.invoked /\ last'.ret = v
CallMisses(a) ==
  IF opt.asyncHas
  THEN CopiesIn([args |-> a, exists |-> FALSE], checks')
         = CopiesIn([args |-> a, exists |-> FALSE], checks) + 1
  ELSE last'.invoked

(* C1: under the default options (no valueAccept, maxAge Infinity, a       *)
(* synchronous cache), when memoized(a) has returned a value and the next  *)
(* operation on the memoized function is memoized(a) again, whatever       *)
(* promises settle in between, the second call does not invoke the wrapped *)
(* function and returns the identical value.                               *)
C1_Config == NoAccept /\ opt.maxAge = Infinity /\ ~opt.asyncHas
C1_SecondCallHits ==
  [][\A a \in ArgTuples :
       (C1_Config /\ last.op = "call" /\ last.args = a /\ Returned(last) /\ Call(a))
         => (~last'.invoked /\ last'.ret = last.ret)]_vars
C1_Witness ==
  /\ C1_Config
  /\ last.op = "call" /\ ~last.invoked
  /\ Settled(last.ret)

(* C2, as the specification states it: with no valueAccept, a promise that *)
(* has rejected is never held in the cache.                                *)
C2_RejectedNeverCached ==
  NoAccept => \A k \in DOMAIN cache : ~Rejected(cache[k].value)

(* C2, amended: with no valueAccept the promise the wrapped function       *)
(* returned is stored by the call itself and stays when it rejects: where  *)
(* entries are not expired by timers, the next operation memoized(a) after *)
(* a call that returned a since rejected promise is a hit that returns     *)
(* that same promise without invoking the wrapped function.                *)
C2_RejectedPromiseIsCached ==
  [][\A a \in ArgTuples :
       (/\ NoAccept /\ ~TimedExpiry /\ ~opt.asyncHas
        /\ last.op = "call" /\ last.args = a /\ Rejected(last.ret)
        /\ Call(a))
         => (~last'.invoked /\ last'.ret = last.ret)]_vars
C2_Witness ==
  /\ NoAccept /\ ~TimedExpiry /\ ~opt.asyncHas
  /\ last.op = "call" /\ ~last.invoked /\ Rejected(last.ret)

(* C3: a cache hit returns what the miss returned to its caller: when      *)
(* memoized(a) has returned a value and the next operation is memoized(a)  *)
(* and is a hit, it returns that same value (the value held in the cache   *)
(* is the wrapped function's return value, not its unwrapped result).      *)
C3_HitReturnsWhatMissReturned ==
  [][\A a \in ArgTuples :
       (/\ ~opt.asyncHas
        /\ last.op = "call" /\ last.args = a /\ last.invoked /\ Returned(last)
        /\ Call(a) /\ ~last'.invoked)
         => last'.ret = last.ret]_vars

(* C4: with valueAccept set, the result of a miss is stored exactly when   *)
(* the predicate accepts it.  An immediate result is judged as             *)
(* (null, value) within the call; a promise is judged once settled, as     *)
(* (null, resolved value) or (error, undefined).  (err) => !err stores     *)
(* resolved results and no rejected one; (err, v) => v === true stores     *)
(* true and nothing else.  A result that is not accepted leaves the cache  *)
(* as it was.                                                              *)
C4_AcceptsImmediate(value) ==
  opt.valueAccept = "isTrue" => value = Imm("true")
C4_AcceptsSettled(p) ==
  /\ opt.valueAccept = "notErr" => p.state = "resolved"
  /\ opt.valueAccept = "isTrue" => (p.state = "resolved" /\ p.v = "true")
  /\ opt.valueAccept = "rethrows" => p.state = "resolved"
C4_Miss == ~NoAccept /\ last'.invoked /\ last'.produced.t = "imm"
C4_MissStep(key) ==
  IF C4_AcceptsImmediate(last'.produced)
  THEN CacheHas(cache', key) /\ CacheGet(cache', key) = last'.produced
  ELSE cache' = cache
C4_StoredIffAccepted ==
  [][/\ \A a \in ArgTuples :
          (C4_Miss /\ ~opt.asyncHas /\ Call(a)) => C4_MissStep(cacheKey(a))
     /\ \A t \in BagToSet(checks) :
          (C4_Miss /\ ExistenceChecked(t)) => C4_MissStep(cacheKey(t.args))
     /\ \A t \in BagToSet(stores) :
          StoreTask(t) => IF C4_AcceptsSettled(promises[t.pid])
                          THEN CacheHas(cache', t.key)
                          ELSE cache' = cache]_vars
C4_Witness ==
  /\ opt.valueAccept = "notErr"
  /\ last.op = "call" /\ last.invoked /\ Rejected(last.ret)
  /\ stores = EmptyBag
  /\ ~CacheHas(cache, cacheKey(last.args))
  /\ \E k \in DOMAIN cache : cache[k].value = Imm("true")

(* C5: with maxAge = 100 and expiration left to the memoizer, a call at    *)
(* time T that invokes the wrapped function and caches its value V, made   *)
(* when nothing was pending for its key, is followed by: memoized(a) as    *)
(* the next operation at T+50 returns V without invoking the wrapped       *)
(* function, and memoized(a) as the next operation at T+150 (or later)     *)
(* invokes it again.                                                       *)
C5_Config == opt.maxAge = ExampleMaxAge /\ TimedExpiry /\ NoAccept /\ ~opt.asyncHas
C5_CachedAt(a) ==
  /\ C5_Config
  /\ last.op = "call" /\ last.args = a /\ last.invoked /\ Returned(last)
  /\ last.quiet
C5_HitAt50MissAt150 ==
  [][\A a \in ArgTuples :
       (C5_CachedAt(a) /\ Call(a))
         => /\ last.age = ExampleMaxAge \div 2
                => (~last'.invoked /\ last'.ret = last.ret)
            /\ last.age >= ExampleMaxAge + ExampleMaxAge \div 2
                => last'.invoked]_vars
C5_Witness ==
  /\ C5_CachedAt(last.args)
  /\ last.age >= ExampleMaxAge + ExampleMaxAge \div 2
  /\ ~CacheHas(cache, cacheKey(last.args))

(* C6: memoized.delete(a) removes the entry of the key of a and no other   *)
(* entry.  When no earlier call is still to store under that key, the next *)
(* operation memoized(a) is a miss, while memoized(b) for another key that *)
(* is cached is a hit returning the cached value.                          *)
C6_DeleteRemovesOneEntry ==
  [][\A a \in ArgTuples :
       /\ Delete(a)
            => /\ DOMAIN cache' = DOMAIN cache \ {cacheKey(a)}
               /\ \A k \in DOMAIN cache' : cache'[k] = cache[k]
               /\ last'.ret = Imm(IF cacheKey(a) \in DOMAIN cache
                                  THEN "true" ELSE "false")
       /\ (last.op = "delete" /\ last.args = a /\ last.quiet)
            => /\ Call(a) => CallMisses(a)
               /\ \A b \in ArgTuples :
                    (/\ cacheKey(b) # cacheKey(a)
                     /\ CacheHas(cache, cacheKey(b))
                     /\ Call(b))
                      => CallHits(b, cache[cacheKey(b)].value)]_vars
C6_Witness ==
  /\ last.op = "delete" /\ last.ret = Imm("true") /\ last.quiet
  /\ ~CacheHas(cache, cacheKey(last.args))
  /\ cache # EmptyCache

(* C7: memoized.clear() on a cache with clear empties the cache; when no   *)
(* earlier call is still to store, the next operation memoized(a) is a     *)
(* miss for every a.                                                       *)
C7_ClearEmptiesTheCache ==
  [][/\ (opt.hasClear /\ Clear) => (cache' = EmptyCache /\ last'.ret = Undefined)
     /\ \A a \in ArgTuples :
          (opt.hasClear /\ last.op = "clear" /\ last.quiet /\ Call(a))
            => CallMisses(a)]_vars
C7_Witness ==
  /\ opt.hasClear /\ last.op = "clear" /\ last.quiet
  /\ cache = EmptyCache
  /\ \A a \in ArgTuples :
       \E t \in BagToSet(timers) : t.key = cacheKey(a) /\ t.delay > 0

(* C8: memoized.clear() on a cache without clear throws the error "This    *)
(* cache doesn't support clear" and leaves the cache as it was: the        *)
(* entries are still there, and the next operation memoized(a) for a       *)
(* cached key is a hit.                                                    *)
C8_ClearUnsupportedThrows ==
  [][/\ (~opt.hasClear /\ Clear)
          => (last'.ret = Thrown(ClearError) /\ cache' = cache)
     /\ \A a \in ArgTuples :
          (/\ ~opt.hasClear /\ last.op = "clear"
           /\ CacheHas(cache, cacheKey(a)) /\ Call(a))
            => CallHits(a, cache[cacheKey(a)].value)]_vars
C8_Witness ==
  /\ ~opt.hasClear /\ last.op = "clear" /\ last.ret = Thrown(ClearError)
  /\ Cardinality(DOMAIN cache) = Cardinality(ArgTuples)

(* C9: a call that invokes the wrapped function hands its caller exactly   *)
(* what the function produced: the same immediate value, the same promise, *)
(* or the error it threw; and when the function throws, nothing is stored, *)
(* scheduled or deferred.                                                  *)
C9_MissStep ==
  last'.invoked
    => /\ last'.ret = last'.produced
       /\ last'.produced.t = "throw"
            => (cache' = cache /\ timers' = timers /\ stores' = stores)
C9_MissPassesThrough ==
  [][/\ \A a \in ArgTuples : (last'.invoked /\ Call(a)) => C9_MissStep
     /\ \A t \in BagToSet(checks) : (last'.invoked /\ ExistenceChecked(t)) => C9_MissStep]_vars
C9_Witness ==
  /\ IsCallEvent(last) /\ last.invoked /\ last.ret.t = "throw"
  /\ cache # EmptyCache

(* C10: when has() is asynchronous every memoized call returns a promise,  *)
(* and when the cache still answers has(key) as it did at the call, the    *)
(* promise is resolved with what a synchronous cache would have returned:  *)
(* the cached value on a hit, without invoking the wrapped function, and   *)
(* what the wrapped function produced on a miss.                           *)
C10_AsyncHasSameResult ==
  [][/\ \A a \in ArgTuples :
          (opt.asyncHas /\ Call(a)) => (last'.ret = Thenable /\ cache' = cache)
     /\ \A t \in BagToSet(checks) :
          (ExistenceChecked(t) /\ t.exists = CacheHas(cache, cacheKey(t.args)))
            => IF CacheHas(cache, cacheKey(t.args))
               THEN /\ ~last'.invoked
                    /\ last'.ret = cache[cacheKey(t.args)].value
                    /\ cache' = cache
               ELSE /\ last'.invoked
                    /\ last'.ret = last'.produced]_vars
C10_Witness ==
  /\ opt.asyncHas /\ last.op = "checked"
  /\ last.invoked /\ last.ret.t = "imm"
  /\ CacheGet(cache, cacheKey(last.args)) = last.ret

(* C11: wherever the Memoizer does not expire entries by timers of its     *)
(* own, no timer is ever scheduled; every entry was written with maxAge as *)
(* the third argument of cache.set when cacheHandlesExpiration is set and  *)
(* maxAge is finite and positive, and with no expiration when maxAge is    *)
(* non-positive or Infinity; and an entry leaves the cache only by         *)
(* memoized.delete of its key or memoized.clear.                           *)
C11_Expiration ==
  IF opt.cacheHandlesExpiration /\ hasExpireDate THEN <<opt.maxAge>> ELSE <<>>
C11_ExpirationLeftToTheCache ==
  [][~TimedExpiry =>
       /\ timers' = EmptyBag
       /\ \A k \in DOMAIN cache' : cache'[k].exp = C11_Expiration
       /\ \A k \in DOMAIN cache \ DOMAIN cache' :
            \/ \E a \in ArgTuples : cacheKey(a) = k /\ Delete(a)
            \/ Clear]_vars
C11_Witness ==
  /\ opt.cacheHandlesExpiration /\ hasExpireDate
  /\ last.op = "call" /\ last.invoked
  /\ Cardinality(DOMAIN cache) = 2
  /\ \A k \in DOMAIN cache : cache[k].exp = <<opt.maxAge>>
  /\ timers = EmptyBag

(* C12: under the default options, every zero-argument call memoized()     *)
(* reads and writes the one entry under the key "__0aritykey__": when that *)
(* entry exists the call does not invoke the wrapped function and leaves   *)
(* the cache as it is, when it does not the call invokes the function and  *)
(* what it returned becomes that entry and no other; the key of a call     *)
(* with one or more arguments is never that key, and such a call leaves    *)
(* the entry untouched.                                                    *)
C12_Sentinel == "__0aritykey__"
C12_Arguments == {"n1", "s1", "null"}
C12_SomeArguments ==
  {<<x>> : x \in C12_Arguments} \cup {<<x, y>> : x \in C12_Arguments, y \in C12_Arguments}
C12_ZeroArgumentCallsShareOneEntry ==
  [][C1_Config =>
       /\ \A a \in C12_SomeArguments : cacheKey(a) # C12_Sentinel
       /\ Call(<<>>) =>
            IF CacheHas(cache, C12_Sentinel)
            THEN ~last'.invoked /\ last'.ret = cache[C12_Sentinel].value /\ cache' = cache
            ELSE /\ last'.invoked
                 /\ Returned(last') =>
                      cache' = CacheSet(cache, C12_Sentinel, last'.ret, <<>>)
       /\ \A a \in ArgTuples \ {<<>>} :
            Call(a) => /\ CacheHas(cache', C12_Sentinel) = CacheHas(cache, C12_Sentinel)
                       /\ CacheGet(cache', C12_Sentinel) = CacheGet(cache, C12_Sentinel)]_vars
C12_Witness ==
  /\ C1_Config
  /\ last.op = "call" /\ last.args = <<>> /\ ~last.invoked
  /\ DOMAIN cache = {C12_Sentinel, cacheKey(<<"n1">>)}
  /\ cache[C12_Sentinel].value # cache[cacheKey(<<"n1">>)].value

(* C13: fp(options, fn), and fn handed to the function that fp(options)    *)
(* returned, each do exactly what memoizy(fn, options) does: one memoized  *)
(* function more, closing over that fn, those options and a new empty      *)
(* cache.  No two memoized functions hold the same cache; the memoized     *)
(* function the program has turned to runs under the options it was made   *)
(* with, and its calls, delete and clear leave the caches of the others as *)
(* they are.                                                               *)
C13_AsMemoizy(o, f) == [fp' EXCEPT !.by = fp.by] = memoizy(f, o, fp)
C13_AdapterAddsNothing ==
  [][/\ \A o \in FpOptions, f \in FpFns :
          /\ Fp(<<o, f>>) => C13_AsMemoizy(o, f)
          /\ Partial(<<o>>, <<f>>) => C13_AsMemoizy(o, f)
     /\ \A i, j \in 1..Len(fp'.made) :
          i # j => fp'.made[i].cache # fp'.made[j].cache
     /\ fp'.live > 0 => opt' = fp'.made[fp'.live].opt
     /\ ((\E a \in FpArgTuples : FpCall(a) \/ FpDelete(a)) \/ FpClear) => fp' = fp]_vars
C13_Witness ==
  /\ Len(fp.made) = 2 /\ fp.by = "partial" /\ fp.live = 2
  /\ fp.made[1].opt = fp.made[2].opt /\ <<fp.made[2].opt>> \in fp.bound
  /\ fp.made[1].fn = "double" /\ fp.made[2].fn = "triple"
  /\ CacheHas(fp.heap[fp.made[1].cache], cacheKey(<<"n1">>))
  /\ cache = EmptyCache
  /\ last.op = "delete" /\ last.ret = Imm("false")

(* C14: where entries are expired by timers (maxAge finite and positive,   *)
(* cacheHandlesExpiration false): a step that puts an entry under a key    *)
(* adds one timer for that key, due maxAge later; no step other than the   *)
(* timer's own firing takes a pending timer away, delete, clear and later  *)
(* stores under the key included, and time only brings it nearer; a timer  *)
(* fires when its maxAge has passed and then deletes its key from the      *)
(* cache, whichever store the entry now there came from.                   *)
C14_NewTimer(key) == [key |-> key, delay |-> opt.maxAge]
C14_UncancellableTimers ==
  [][TimedExpiry =>
       /\ \A t \in BagToSet(timers) : 0 <= t.delay /\ t.delay <= opt.maxAge
       /\ \A t \in BagToSet(timers) :
            IF TimerFire(t)
            THEN /\ t.delay = 0
                 /\ cache' = CacheDelete(cache, t.key)
                 /\ timers' (+) SetToBag({t}) = timers
            ELSE IF Tick
            THEN CopiesIn(Earlier(t), timers') = CopiesIn(t, timers)
            ELSE (\A u \in BagToSet(timers) : ~TimerFire(u))
                   => CopiesIn(t, timers') >= CopiesIn(t, timers)
       /\ \A a \in ArgTuples :
            (~CacheHas(cache, cacheKey(a)) /\ CacheHas(cache', cacheKey(a)))
              => CopiesIn(C14_NewTimer(cacheKey(a)), timers')
                   = CopiesIn(C14_NewTimer(cacheKey(a)), timers) + 1]_vars
(* Reached: the entry of the most recent call, stored less than maxAge     *)
(* ago, is gone although nothing was deleted or cleared since, and its own *)
(* timer is still pending.                                                 *)
C14_Witness ==
  /\ TimedExpiry
  /\ last.op = "call" /\ last.invoked /\ Returned(last)
  /\ last.age < opt.maxAge
  /\ ~CacheHas(cache, cacheKey(last.args))
  /\ BagIn([key |-> cacheKey(last.args), delay |-> opt.maxAge - last.age], timers)

(* C15, as the specification states it: where entries are expired by       *)
(* timers, as long as the call that stored a value is the most recent      *)
(* operation (so nothing was deleted or cleared since), the entry is in    *)
(* the cache while less than maxAge has passed since the store, and is not *)
(* once more than maxAge has passed.                                       *)
C15_Stored == TimedExpiry /\ last.op = "call" /\ last.invoked /\ Returned(last)
C15_RetainedForExactlyMaxAge ==
  C15_Stored =>
    /\ last.age < opt.maxAge => CacheHas(cache, cacheKey(last.args))
    /\ last.age > opt.maxAge => ~CacheHas(cache, cacheKey(last.args))

(* C15, amended: where entries are expired by timers, every entry in the   *)
(* cache has a timer of its key pending, and a value is gone once more     *)
(* than maxAge has passed since the call that stored it; a call that hits  *)
(* leaves the cache and the timers as they are; and the value stays for    *)
(* the whole of maxAge when no timer of an earlier store under its key was *)
(* pending as it was stored.                                               *)
C15_RemovedByMaxAgeAtTheLatest ==
  [][TimedExpiry =>
       /\ \A k \in DOMAIN cache' : \E t \in BagToSet(timers') : t.key = k
       /\ C15_Stored' =>
            /\ last'.age > opt.maxAge => ~CacheHas(cache', cacheKey(last'.args))
            /\ (last'.quiet /\ last'.age < opt.maxAge)
                 => /\ CacheHas(cache', cacheKey(last'.args))
                    /\ CacheGet(cache', cacheKey(last'.args)) = last'.ret
       /\ \A a \in ArgTuples :
            (Call(a) /\ ~last'.invoked) => (cache' = cache /\ timers' = timers)]_vars
(* Reached: a value was read by a hit and, less than maxAge after that     *)
(* read, its timer has removed it.                                         *)
C15_Witness ==
  /\ TimedExpiry
  /\ last.op = "call" /\ ~last.invoked /\ last.quiet = FALSE
  /\ last.age > 0 /\ last.age < opt.maxAge
  /\ ~CacheHas(cache, cacheKey(last.args))
  /\ NoTimerPending(cacheKey(last.args))

(* C16: when memoized(a) has just been called with nothing in flight for   *)
(* its key, and what would store its result has not run yet (the           *)
(* continuation of an asynchronous has() that answered false, or, with     *)
(* valueAccept, the reaction on the pending promise the call returned),    *)
(* then memoized(a) called again is a miss as well; and every continuation *)
(* that was told the key does not exist invokes the wrapped function,      *)
(* whatever the cache holds by then.                                       *)
C16_FirstCall(a) == last.op = "call" /\ last.args = a /\ last.quiet
C16_NoCoalescing ==
  [][\A a \in ArgTuples :
       /\ ( /\ opt.asyncHas /\ C16_FirstCall(a)
            /\ BagIn([args |-> a, exists |-> FALSE], checks)
            /\ Call(a) ) => CallMisses(a)
       /\ ( /\ ~NoAccept /\ C16_FirstCall(a)
            /\ last.invoked /\ last.ret.t = "promise"
            /\ BagIn([key |-> cacheKey(a), pid |-> last.ret.id], stores)
            /\ Call(a) ) => last'.invoked
       /\ ( /\ BagIn([args |-> a, exists |-> FALSE], checks)
            /\ ExistenceChecked([args |-> a, exists |-> FALSE]) ) => last'.invoked]_vars
(* Reached: the second of two calls for one key has invoked the wrapped    *)
(* function, and the results of both wait for their acceptance.            *)
C16_Witness ==
  /\ last.op = "call" /\ last.invoked /\ ~last.quiet
  /\ \E s, t \in BagToSet(stores) :
       s.key = cacheKey(last.args) /\ t.key = s.key /\ s.pid # t.pid /\ t.pid = last.ret.id

(* C17, as the specification states it: with valueAccept, a call that      *)
(* returns a pending promise stores nothing itself and leaves the decision *)
(* to a reaction on the promise; when valueAccept throws in that reaction, *)
(* the cache stays as it is, the promise the caller holds stays settled as *)
(* the wrapped function settled it, and no rejection is left unhandled.    *)
C17_PredicateFails(p) ==
  valueAcceptThrows(IF p.state = "rejected" THEN p.v ELSE "null",
                    IF p.state = "resolved" THEN Imm(p.v) ELSE Undefined)
C17_FailureStaysInTheStorageTask ==
  [][/\ \A a \in ArgTuples :
          (~NoAccept /\ Call(a) /\ last'.invoked /\ last'.ret.t = "promise")
            => /\ cache' = cache
               /\ BagIn([key |-> cacheKey(a), pid |-> last'.ret.id], stores')
     /\ \A t \in BagToSet(stores) :
          (StoreTask(t) /\ C17_PredicateFails(promises[t.pid]))
            => /\ cache' = cache
               /\ t.pid \in Referenced(cache', stores', last')
                    => promises'[t.pid] = promises[t.pid]
               /\ ~unhandled']_vars

(* C18: with a synchronous has() and no valueAccept, a call that finds no  *)
(* entry invokes the wrapped function and, unless the function throws, has *)
(* stored what it returned (a pending promise included) by the time it     *)
(* returns; a call that finds an entry returns it without invoking the     *)
(* function and leaves the cache as it is; and an entry changes or leaves  *)
(* the cache only by memoized.delete of its key, memoized.clear or the     *)
(* firing of a timer of its key.  So between two of those the function is  *)
(* invoked for a key at most once after it has returned a result.          *)
C18_Config == NoAccept /\ ~opt.asyncHas
C18_StoredBeforeTheCallReturns ==
  [][C18_Config =>
       /\ \A a \in ArgTuples :
            Call(a) =>
              IF CacheHas(cache, cacheKey(a))
              THEN /\ ~last'.invoked
                   /\ last'.ret = CacheGet(cache, cacheKey(a))
                   /\ cache' = cache
              ELSE /\ last'.invoked
                   /\ Returned(last') =>
                        /\ CacheHas(cache', cacheKey(a))
                        /\ CacheGet(cache', cacheKey(a)) = last'.ret
       /\ \A k \in DOMAIN cache :
            (~CacheHas(cache', k) \/ CacheGet(cache', k) # CacheGet(cache, k))
              => \/ \E a \in ArgTuples : cacheKey(a) = k /\ Delete(a)
                 \/ Clear
                 \/ \E t \in BagToSet(timers) : t.key = k /\ TimerFire(t)]_vars
(* Reached: a call has been answered from the cache with a promise that is *)
(* still pending.                                                          *)
C18_Witness ==
  /\ C18_Config
  /\ last.op = "call" /\ ~last.invoked
  /\ last.ret.t = "promise" /\ promises[last.ret.id].state = "pending"
  /\ CacheGet(cache, cacheKey(last.args)) = last.ret

(* C19, as the specification states it: a memoized call, or with an        *)
(* asynchronous has() its continuation, either invokes the wrapped         *)
(* function or returns the value that the cache holds under its key at     *)
(* that moment.                                                            *)
C19_ReturnsStored(a) ==
  \/ last'.invoked
  \/ /\ CacheHas(cache, cacheKey(a))
     /\ last'.ret = CacheGet(cache, cacheKey(a))
C19_InvokesOrReturnsStored ==
  [][/\ \A a \in ArgTuples : (~opt.asyncHas /\ Call(a)) => C19_ReturnsStored(a)
     /\ \A t \in BagToSet(checks) : ExistenceChecked(t) => C19_ReturnsStored(t.args)]_vars

(* C20, as the specification states it: as long as memoized.delete(a) is   *)
(* the most recent operation on the memoized function, so that no call has *)
(* started since, the cache holds no entry under the key of a; and as long *)
(* as a memoized.clear() that did not throw is, the cache is empty.        *)
C20_InvalidationIsNotUndone ==
  /\ last.op = "delete" => ~CacheHas(cache, cacheKey(last.args))
  /\ (last.op = "clear" /\ last.ret.t # "throw") => cache = EmptyCache

====
